---- MODULE Spec2Model ----
(***************************************************************************)
(* A model of server.js of random-ranking: an express + socket.io server   *)
(* over two mongoose collections (User, ClaimHistory).  Every await of a   *)
(* handler is a point where other handlers may run, so every handler is    *)
(* cut into one action per storage operation plus one for the code that    *)
(* runs after the last await (emit and HTTP response).                     *)
(***************************************************************************)
EXTENDS Integers, Sequences, FiniteSets, TLC

\* ------------------------------------------------------------------ bounds
MaxArrivals == 2    \* HTTP requests and socket connections made in one run
MaxFailures == 1    \* storage operations that reject in one run

Reqs == 1..MaxArrivals
Sockets == 1..MaxArrivals

\* ------------------------------------------------------------------ inputs
NoName == "<undefined>"                  \* req.body without a name
NameInputs == {NoName, "", "Rahul", "Zed"}
\* req.body.userId: 0 stands for a body without userId, 99 is a well-formed
\* id that no user has, 2 is an id the store hands out
UserIdInputs == {0, 2, 99}
\* Values of Math.random() in hundredths: 0.00 and 0.99, both in [0, 1)
RandomSamples == {0, 99}
\* How the store orders documents of equal totalPoints in a sorted find
TieOrders == {"natural", "reverse"}

\* ------------------------------------------------------------- the program
initialUsers ==
    <<"Rahul", "Kamal", "Sanak", "Priya", "Amit",
      "Sunita", "Vikram", "Anjali", "Deepak", "Meera">>

\* A document of the User collection: totalPoints defaults to 0
NewUser(id, name) == [_id |-> id, name |-> name, totalPoints |-> 0]

\* Collections the process may be started against: a fresh one, and one that
\* an earlier run left with two users
InitialCollections == { << >>, <<NewUser(1, "Rahul"), NewUser(2, "Kamal")>> }

VARIABLES
    mongo,      \* mongoose.connect: "connecting", "connected" or "failed"
    seedPc,     \* seedDatabase: "idle", "insert" (after its count) or "done"
    users,      \* the User collection, in insertion (natural) order
    history,    \* the ClaimHistory collection, in insertion order
    writes,     \* number of writes applied to the User collection so far
    req,        \* the HTTP handler invocations, one per slot
    sock,       \* the socket.io connections, one per slot
    inbox,      \* per connection, the events the client has been sent
    failures,   \* storage operations that have rejected so far
    startUsers  \* the User collection as the process found it when it started

vars ==
    <<mongo, seedPc, users, history, writes, req, sock, inbox, failures,
      startUsers>>

\* -------------------------------------------------------- pure definitions
Names(us) == {us[i].name : i \in DOMAIN us}
Ids(us) == {us[i]._id : i \in DOMAIN us}
IndexOfId(us, id) == CHOOSE i \in DOMAIN us : us[i]._id = id

\* User.findById: the document, or null
NullDoc == [_id |-> 0, name |-> NoName, totalPoints |-> 0]

\* Mutant: a lookup that falls back to the first document instead of null
FindById_FirstDoc(us, id) ==
    IF id \in Ids(us) THEN us[IndexOfId(us, id)]
    ELSE IF us # << >> THEN us[1] ELSE NullDoc

FindById(us, id) == IF id \in Ids(us) THEN us[IndexOfId(us, id)] ELSE NullDoc

Reverse(s) == [i \in 1..Len(s) |-> s[Len(s) + 1 - i]]

\* Insert u into a sequence that is sorted by totalPoints descending, after
\* every entry that does not have fewer points (a stable insertion)
RECURSIVE InsertDesc(_, _)
InsertDesc(sorted, u) ==
    IF sorted = << >> THEN <<u>>
    ELSE IF Head(sorted).totalPoints >= u.totalPoints
         THEN <<Head(sorted)>> \o InsertDesc(Tail(sorted), u)
         ELSE <<u>> \o sorted

\* Insertion sort; the sorted prefix is bound as a value, so that it is
\* computed once for each insertion
RECURSIVE SortDesc(_)
SortDesc(us) ==
    IF us = << >> THEN << >>
    ELSE CHOOSE s \in {InsertDesc(sorted, us[Len(us)]) :
                          sorted \in {SortDesc(SubSeq(us, 1, Len(us) - 1))}} : TRUE

\* User.find({}).sort({ totalPoints: -1 })
FindSorted(us, tie) ==
    IF tie = "natural" THEN SortDesc(us) ELSE SortDesc(Reverse(us))

\* Mutant: the rank is the index of map, which starts at 0
AssignRanks_ZeroBased(sorted) ==
    [i \in 1..Len(sorted) |->
        [rank |-> i - 1, name |-> sorted[i].name,
         totalPoints |-> sorted[i].totalPoints, _id |-> sorted[i]._id]]

\* getLeaderboard's map: rank is index + 1
AssignRanks(sorted) ==
    [i \in 1..Len(sorted) |->
        [rank |-> i, name |-> sorted[i].name,
         totalPoints |-> sorted[i].totalPoints, _id |-> sorted[i]._id]]

\* The sorted list is bound as a value, so that it is computed once
getLeaderboard(us, tie) ==
    CHOOSE board \in {AssignRanks(sorted) : sorted \in {FindSorted(us, tie)}} : TRUE

\* Mutant: the + 1 is forgotten, the award ranges over 0..9
randomPoints_NoPlusOne(sample) == (sample * 10) \div 100

\* Math.floor(Math.random() * 10) + 1, with Math.random() = sample / 100
randomPoints(sample) == ((sample * 10) \div 100) + 1

\* Mutant: = instead of +=
AddPoints_Assign(user, points) == [user EXCEPT !.totalPoints = points]

\* user.totalPoints += randomPoints
AddPoints(user, points) == [user EXCEPT !.totalPoints = @ + points]

\* user.save() of a loaded document whose totalPoints was modified: the
\* update sets the stored field to the document's value
SaveUser(us, user) ==
    [i \in DOMAIN us |->
        IF us[i]._id = user._id
        THEN [us[i] EXCEPT !.totalPoints = user.totalPoints]
        ELSE us[i]]

\* The unique index on User.name: a write of a taken name is refused
NameTaken(us, name) == name \in Names(us)

\* Mutant: the save is acknowledged but the document is not stored
InsertUser_NotStored(us, name) == us

\* newUser.save(): the generated _id is fresh
InsertUser(us, name) == Append(us, NewUser(Len(us) + 1, name))

\* User.insertMany(docs), ordered: documents are inserted in order up to the
\* first one whose name is taken
RECURSIVE InsertMany(_, _)
InsertMany(us, names) ==
    IF names = << >> \/ NameTaken(us, Head(names)) THEN us
    ELSE InsertMany(InsertUser(us, Head(names)), Tail(names))

\* ------------------------------------------------------------------- state
IdleReq ==
    [pc |-> "idle", kind |-> "none", name |-> NoName, userId |-> 0,
     user |-> NullDoc, readPoints |-> 0, points |-> 0,
     board |-> << >>, ver |-> 0, status |-> 0, sent |-> 0, body |-> << >>]

NoSocket == [pc |-> "none", connected |-> FALSE, board |-> << >>, ver |-> 0]

Init ==
    /\ mongo = "connecting"
    /\ seedPc = "idle"
    /\ users \in InitialCollections
    /\ startUsers = users
    /\ history = << >>
    /\ writes = 0
    /\ req = [r \in Reqs |-> IdleReq]
    /\ sock = [s \in Sockets |-> NoSocket]
    /\ inbox = [s \in Sockets |-> << >>]
    /\ failures = 0

\* A storage operation is buffered until mongoose.connect settles; then it
\* resolves, or rejects
Resolves == mongo = "connected"
Rejects == mongo = "failed" \/ (mongo = "connected" /\ failures < MaxFailures)
Rejected == failures' = IF mongo = "connected" THEN failures + 1 ELSE failures

\* res.status(code).json(...) of a handler that then returns: the slot keeps
\* the request and the response, the handler's other locals are gone.  The
\* success responses carry the user document (and the award)
Finish(q, code) ==
    [q EXCEPT !.pc = "done", !.status = code, !.sent = @ + 1,
              !.board = << >>, !.ver = 0, !.readPoints = 0,
              !.user = IF code \in {200, 201} THEN @ ELSE NullDoc,
              !.points = IF code = 200 THEN @ ELSE 0]
Respond(r, code) == Finish(req[r], code)

\* The catch of POST /api/users: error.code === 11000 is the duplicate key
\* error of the unique index on name
DuplicateKeyCode == 11000

\* Mutant: the catch does not tell the duplicate key error apart
ErrorStatus_Always500(code) == 500

ErrorStatus(code) == IF code = DuplicateKeyCode THEN 409 ELSE 500

\* Requests and connections made so far
Arrivals ==
    Cardinality({r \in Reqs : req[r].pc # "idle"})
        + Cardinality({s \in Sockets : sock[s].pc # "none"})

\* Requests take the slots in the order in which they arrive
Arrives(r) ==
    /\ req[r].pc = "idle"
    /\ IF r = 1 THEN TRUE ELSE req[r - 1].pc # "idle"
    /\ Arrivals < MaxArrivals

\* io.emit('leaderboardUpdate', board): to every socket connected now
Emitted(board, ver) ==
    [event |-> "leaderboardUpdate", data |-> board, ver |-> ver, via |-> "io"]
IoEmit(board, ver) ==
    [s \in Sockets |->
        IF sock[s].connected THEN Append(inbox[s], Emitted(board, ver))
        ELSE inbox[s]]

\* ------------------------------------------------------ GET /api/users
GetUsers(r) ==
    /\ Arrives(r)
    /\ mongo # "connecting"
    /\ \/ /\ Resolves
          /\ req' = [req EXCEPT ![r] =
                        [Respond(r, 200) EXCEPT !.kind = "getUsers", !.body = users]]
          /\ UNCHANGED failures
       \/ /\ Rejects
          /\ req' = [req EXCEPT ![r] = [Respond(r, 500) EXCEPT !.kind = "getUsers"]]
          /\ Rejected
    /\ UNCHANGED <<mongo, seedPc, users, history, writes, sock, inbox, startUsers>>

\* ------------------------------------------------------ POST /api/users
PostUsersNoName(r, name) ==
    /\ Arrives(r)
    /\ name \in {NoName, ""}
    /\ req' = [req EXCEPT ![r] =
                  [Respond(r, 400) EXCEPT !.kind = "postUsers", !.name = name]]
    /\ UNCHANGED <<mongo, seedPc, users, history, writes, sock, inbox, failures,
                   startUsers>>

PostUsersSave(r, name) ==
    /\ Arrives(r)
    /\ name \notin {NoName, ""}
    /\ mongo # "connecting"
    /\ LET started == [req[r] EXCEPT !.kind = "postUsers", !.name = name] IN
       \/ /\ Resolves
          /\ ~NameTaken(users, name)
          /\ users' = InsertUser(users, name)
          /\ writes' = writes + 1
          /\ req' = [req EXCEPT ![r] =
                        [started EXCEPT !.pc = "lb",
                                        !.user = NewUser(Len(users) + 1, name)]]
          /\ UNCHANGED failures
       \/ /\ Resolves
          /\ NameTaken(users, name)
          /\ req' = [req EXCEPT ![r] =
                        Finish(started, ErrorStatus(DuplicateKeyCode))]
          /\ UNCHANGED <<users, writes, failures>>
       \/ /\ Rejects
          /\ req' = [req EXCEPT ![r] =
                        Finish(started, ErrorStatus(0))]
          /\ Rejected
          /\ UNCHANGED <<users, writes>>
    /\ UNCHANGED <<mongo, seedPc, history, sock, inbox, startUsers>>

\* Mutant: the rejection of getLeaderboard() is not caught by the handler, so
\* no response is sent
Leaderboard_NoCatch(r, kind) ==
    /\ req[r].pc = "lb"
    /\ req[r].kind = kind
    /\ \/ /\ Resolves
          /\ \E tie \in TieOrders :
                req' = [req EXCEPT ![r].pc = "emit",
                                   ![r].board = getLeaderboard(users, tie),
                                   ![r].ver = writes]
          /\ UNCHANGED failures
       \/ /\ Rejects
          /\ req' = [req EXCEPT ![r].pc = "rejected"]
          /\ Rejected
    /\ UNCHANGED <<mongo, seedPc, users, history, writes, sock, inbox,
                   startUsers>>

\* await getLeaderboard() of either POST handler
Leaderboard(r, kind) ==
    /\ req[r].pc = "lb"
    /\ req[r].kind = kind
    /\ \/ /\ Resolves
          /\ \E tie \in TieOrders :
                req' = [req EXCEPT ![r].pc = "emit",
                                   ![r].board = getLeaderboard(users, tie),
                                   ![r].ver = writes]
          /\ UNCHANGED failures
       \/ /\ Rejects
          /\ req' = [req EXCEPT ![r] = Respond(r, 500)]
          /\ Rejected
    /\ UNCHANGED <<mongo, seedPc, users, history, writes, sock, inbox,
                   startUsers>>

\* io.emit(...) and the success response of either POST handler
EmitAndRespond(r, kind, code) ==
    /\ req[r].pc = "emit"
    /\ req[r].kind = kind
    /\ inbox' = IoEmit(req[r].board, req[r].ver)
    /\ req' = [req EXCEPT ![r] = Respond(r, code)]
    /\ UNCHANGED <<mongo, seedPc, users, history, writes, sock, failures, startUsers>>

PostUsersLeaderboard(r) == Leaderboard(r, "postUsers")
PostUsersEmit(r) == EmitAndRespond(r, "postUsers", 201)

\* ------------------------------------------------------ POST /api/claim
\* Mutant: the handler looks the user up without testing !userId
ClaimNoUserId_NotTested(r, userId) ==
    /\ Arrives(r)
    /\ userId = 0
    /\ mongo = "connected"
    /\ req' = [req EXCEPT ![r] =
                  [Respond(r, 404) EXCEPT !.kind = "claim", !.userId = userId]]
    /\ UNCHANGED <<mongo, seedPc, users, history, writes, sock, inbox, failures,
                   startUsers>>

ClaimNoUserId(r, userId) ==
    /\ Arrives(r)
    /\ userId = 0
    /\ req' = [req EXCEPT ![r] =
                  [Respond(r, 400) EXCEPT !.kind = "claim", !.userId = userId]]
    /\ UNCHANGED <<mongo, seedPc, users, history, writes, sock, inbox, failures,
                   startUsers>>

\* The handler up to the completion of User.findById
ClaimFind(r, userId) ==
    /\ Arrives(r)
    /\ userId # 0
    /\ mongo # "connecting"
    /\ LET started == [req[r] EXCEPT !.kind = "claim", !.userId = userId]
           user == FindById(users, userId) IN
       \/ /\ Resolves
          /\ user # NullDoc
          /\ \E sample \in RandomSamples :
                req' = [req EXCEPT ![r] =
                           [started EXCEPT
                               !.pc = "save",
                               !.readPoints = user.totalPoints,
                               !.points = randomPoints(sample),
                               !.user = AddPoints(user, randomPoints(sample))]]
          /\ UNCHANGED failures
       \/ /\ Resolves
          /\ user = NullDoc
          /\ req' = [req EXCEPT ![r] = Finish(started, 404)]
          /\ UNCHANGED failures
       \/ /\ Rejects
          /\ req' = [req EXCEPT ![r] = Finish(started, 500)]
          /\ Rejected
    /\ UNCHANGED <<mongo, seedPc, users, history, writes, sock, inbox, startUsers>>

\* await user.save()
\* Mutant: the user update and the history insert are issued together, without
\* awaiting the update first
ClaimSave_WithHistory(r) ==
    /\ req[r].pc = "save"
    /\ \/ /\ Resolves
          /\ users' = SaveUser(users, req[r].user)
          /\ writes' = writes + 1
          /\ history' = Append(history, [userId |-> req[r].user._id,
                                         pointsClaimed |-> req[r].points])
          /\ req' = [req EXCEPT ![r].pc = "lb"]
          /\ UNCHANGED failures
       \/ /\ Rejects
          /\ req' = [req EXCEPT ![r] = Respond(r, 500)]
          /\ Rejected
          /\ UNCHANGED <<users, writes, history>>
    /\ UNCHANGED <<mongo, seedPc, sock, inbox, startUsers>>

ClaimSave(r) ==
    /\ req[r].pc = "save"
    /\ \/ /\ Resolves
          /\ users' = SaveUser(users, req[r].user)
          /\ writes' = writes + 1
          /\ req' = [req EXCEPT ![r].pc = "hist"]
          /\ UNCHANGED failures
       \/ /\ Rejects
          /\ req' = [req EXCEPT ![r] = Respond(r, 500)]
          /\ Rejected
          /\ UNCHANGED <<users, writes>>
    /\ UNCHANGED <<mongo, seedPc, history, sock, inbox, startUsers>>

\* new ClaimHistory({userId, pointsClaimed}) and await historyRecord.save()
HistoryRecord(user, points) == [userId |-> user._id, pointsClaimed |-> points]

\* Mutant: the rejection of historyRecord.save() is swallowed and the handler
\* goes on to the broadcast
ClaimHistorySave_SwallowsError(r) ==
    /\ req[r].pc = "hist"
    /\ \/ /\ Resolves
          /\ history' = Append(history, HistoryRecord(req[r].user, req[r].points))
          /\ req' = [req EXCEPT ![r].pc = "lb"]
          /\ UNCHANGED failures
       \/ /\ Rejects
          /\ req' = [req EXCEPT ![r].pc = "lb"]
          /\ Rejected
          /\ UNCHANGED history
    /\ UNCHANGED <<mongo, seedPc, users, writes, sock, inbox, startUsers>>

ClaimHistorySave(r) ==
    /\ req[r].pc = "hist"
    /\ \/ /\ Resolves
          /\ history' = Append(history, HistoryRecord(req[r].user, req[r].points))
          /\ req' = [req EXCEPT ![r].pc = "lb"]
          /\ UNCHANGED failures
       \/ /\ Rejects
          /\ req' = [req EXCEPT ![r] = Respond(r, 500)]
          /\ Rejected
          /\ UNCHANGED history
    /\ UNCHANGED <<mongo, seedPc, users, writes, sock, inbox, startUsers>>

ClaimLeaderboard(r) == Leaderboard(r, "claim")
ClaimEmit(r) == EmitAndRespond(r, "claim", 200)

\* ------------------------------------------------- io.on('connection')
\* Connections take the slots in the order in which they are made
Connect(s) ==
    /\ sock[s].pc = "none"
    /\ IF s = 1 THEN TRUE ELSE sock[s - 1].pc # "none"
    /\ Arrivals < MaxArrivals
    /\ sock' = [sock EXCEPT ![s].pc = "lb", ![s].connected = TRUE]
    /\ UNCHANGED <<mongo, seedPc, users, history, writes, req, inbox, failures,
                   startUsers>>

\* Mutant: the connection handler sends a leaderboard computed once at startup
\* instead of reading the users
SocketLeaderboard_FromStartup(s) ==
    /\ sock[s].pc = "lb"
    /\ mongo # "connecting"
    /\ \/ /\ Resolves
          /\ \E tie \in TieOrders :
                sock' = [sock EXCEPT ![s].pc = "emit",
                                     ![s].board = getLeaderboard(startUsers, tie),
                                     ![s].ver = 0]
          /\ UNCHANGED failures
       \/ /\ Rejects
          /\ sock' = [sock EXCEPT ![s].pc = "rejected"]
          /\ Rejected
    /\ UNCHANGED <<mongo, seedPc, users, history, writes, req, inbox, startUsers>>

\* await getLeaderboard() of the connection handler; a rejection is not
\* caught and nothing is sent
SocketLeaderboard(s) ==
    /\ sock[s].pc = "lb"
    /\ mongo # "connecting"
    /\ \/ /\ Resolves
          /\ \E tie \in TieOrders :
                sock' = [sock EXCEPT ![s].pc = "emit",
                                     ![s].board = getLeaderboard(users, tie),
                                     ![s].ver = writes]
          /\ UNCHANGED failures
       \/ /\ Rejects
          /\ sock' = [sock EXCEPT ![s].pc = "rejected"]
          /\ Rejected
    /\ UNCHANGED <<mongo, seedPc, users, history, writes, req, inbox, startUsers>>

\* socket.emit('leaderboardUpdate', board): to this socket, if still connected
SocketEmitted(board, ver) ==
    [event |-> "leaderboardUpdate", data |-> board, ver |-> ver, via |-> "socket"]

\* Mutant: the connection handler uses io.emit instead of socket.emit
SocketEmit_ToAll(s) ==
    /\ sock[s].pc = "emit"
    /\ inbox' = [t \in Sockets |->
                    IF sock[t].connected
                    THEN Append(inbox[t], SocketEmitted(sock[s].board, sock[s].ver))
                    ELSE inbox[t]]
    /\ sock' = [sock EXCEPT ![s].pc = "done", ![s].board = << >>, ![s].ver = 0]
    /\ UNCHANGED <<mongo, seedPc, users, history, writes, req, failures,
                   startUsers>>

SocketEmit(s) ==
    /\ sock[s].pc = "emit"
    /\ inbox' = [inbox EXCEPT ![s] =
                    IF sock[s].connected
                    THEN Append(@, SocketEmitted(sock[s].board, sock[s].ver))
                    ELSE @]
    /\ sock' = [sock EXCEPT ![s].pc = "done", ![s].board = << >>, ![s].ver = 0]
    /\ UNCHANGED <<mongo, seedPc, users, history, writes, req, failures,
                   startUsers>>

\* Mutant: a disconnection is announced to the clients that stay connected
Disconnect_Announced(s) ==
    /\ sock[s].connected
    /\ sock' = [sock EXCEPT ![s].connected = FALSE]
    /\ inbox' = [t \in Sockets |->
                    IF t # s /\ sock[t].connected
                    THEN Append(inbox[t], SocketEmitted(<< >>, writes))
                    ELSE inbox[t]]
    /\ UNCHANGED <<mongo, seedPc, users, history, writes, req, failures,
                   startUsers>>

Disconnect(s) ==
    /\ sock[s].connected
    /\ sock' = [sock EXCEPT ![s].connected = FALSE]
    /\ UNCHANGED <<mongo, seedPc, users, history, writes, req, inbox, failures,
                   startUsers>>

\* ------------------------------------- mongoose.connect and seedDatabase
\* .then: seedDatabase() is called and issues its countDocuments
MongoConnected ==
    /\ mongo = "connecting"
    /\ mongo' = "connected"
    /\ seedPc' = "count"
    /\ UNCHANGED <<users, history, writes, req, sock, inbox, failures, startUsers>>

\* .catch: the error is logged, seedDatabase is never called
MongoConnectionError ==
    /\ mongo = "connecting"
    /\ mongo' = "failed"
    /\ UNCHANGED <<seedPc, users, history, writes, req, sock, inbox, failures,
                   startUsers>>

\* Mutant: the test userCount === 0 is missing
SeedCount_AlwaysInserts ==
    /\ seedPc = "count"
    /\ \/ /\ Resolves
          /\ seedPc' = "insert"
          /\ UNCHANGED failures
       \/ /\ Rejects
          /\ seedPc' = "done"
          /\ Rejected
    /\ UNCHANGED <<mongo, users, history, writes, req, sock, inbox,
                   startUsers>>

\* await User.countDocuments() and the test userCount === 0
SeedCount ==
    /\ seedPc = "count"
    /\ \/ /\ Resolves
          /\ seedPc' = IF Len(users) = 0 THEN "insert" ELSE "done"
          /\ UNCHANGED failures
       \/ /\ Rejects
          /\ seedPc' = "done"
          /\ Rejected
    /\ UNCHANGED <<mongo, users, history, writes, req, sock, inbox,
                   startUsers>>

\* await User.insertMany(usersToInsert); a rejection is caught and logged
SeedInsert ==
    /\ seedPc = "insert"
    /\ seedPc' = "done"
    /\ \/ /\ Resolves
          /\ users' = InsertMany(users, initialUsers)
          /\ writes' = IF users' = users THEN writes ELSE writes + 1
          /\ UNCHANGED failures
       \/ /\ Rejects
          /\ Rejected
          /\ UNCHANGED <<users, writes>>
    /\ UNCHANGED <<mongo, history, req, sock, inbox, startUsers>>

\* ----------------------------------------------------------- the system
Next ==
    \/ MongoConnected
    \/ MongoConnectionError
    \/ SeedCount
    \/ SeedInsert
    \/ \E r \in Reqs : GetUsers(r)
    \/ \E r \in Reqs, name \in NameInputs : PostUsersNoName(r, name)
    \/ \E r \in Reqs, name \in NameInputs : PostUsersSave(r, name)
    \/ \E r \in Reqs : PostUsersLeaderboard(r)
    \/ \E r \in Reqs : PostUsersEmit(r)
    \/ \E r \in Reqs, userId \in UserIdInputs : ClaimNoUserId(r, userId)
    \/ \E r \in Reqs, userId \in UserIdInputs : ClaimFind(r, userId)
    \/ \E r \in Reqs : ClaimSave(r)
    \/ \E r \in Reqs : ClaimHistorySave(r)
    \/ \E r \in Reqs : ClaimLeaderboard(r)
    \/ \E r \in Reqs : ClaimEmit(r)
    \/ \E s \in Sockets : Connect(s)
    \/ \E s \in Sockets : SocketLeaderboard(s)
    \/ \E s \in Sockets : SocketEmit(s)
    \/ \E s \in Sockets : Disconnect(s)

Spec == Init /\ [][Next]_vars

\* Every storage operation a handler awaits eventually resolves or rejects,
\* and the synchronous continuation after it then runs: each step of a
\* handler that has begun is eventually taken.
FairSpec ==
    /\ Spec
    /\ \A r \in Reqs :
          /\ WF_vars(PostUsersLeaderboard(r))
          /\ WF_vars(PostUsersEmit(r))
          /\ WF_vars(ClaimSave(r))
          /\ WF_vars(ClaimHistorySave(r))
          /\ WF_vars(ClaimLeaderboard(r))
          /\ WF_vars(ClaimEmit(r))

\* =================================================================== claims
\* What the steps of a request look like from outside
Stored(us, id) == FindById(us, id).totalPoints
Answers(r, code) == req[r].pc # "done" /\ req'[r].pc = "done" /\ req'[r].status = code
StorageRejected == failures' > failures \/ mongo = "failed"
NothingWritten == UNCHANGED <<users, history, inbox, writes>>

\* C1 as stated: whenever POST /api/claim answers 200, pointsAwarded is in
\* 1..10 and the user's stored totalPoints when the call completes equals the
\* stored totalPoints the call started from (what its findById read) plus
\* pointsAwarded, whatever other requests are in flight.
C1_AsStated ==
    [][\A r \in Reqs :
        (req[r].kind = "claim" /\ Answers(r, 200)) =>
            /\ req'[r].points \in 1..10
            /\ Stored(users', req[r].userId) = req[r].readPoints + req'[r].points]_vars

\* C1 amended: whenever POST /api/claim finds the user, the award is an
\* integer in 1..10 and the handler's save stores the totalPoints its findById
\* read plus the award; a 200 response carries that award and that total.
C1_AwardAddedToReadTotal ==
    [][\A r \in Reqs :
        /\ (req[r].pc = "idle" /\ req'[r].pc = "save") =>
              /\ req'[r].points \in 1..10
              /\ req'[r].readPoints = Stored(users, req'[r].userId)
        /\ (req[r].pc = "save" /\ req'[r].pc = "hist") =>
              Stored(users', req[r].userId) = req[r].readPoints + req[r].points
        /\ (req[r].kind = "claim" /\ Answers(r, 200)) =>
              /\ req'[r].points = req[r].points
              /\ req'[r].points \in 1..10
              /\ req'[r].user._id = req[r].userId
              /\ req'[r].user.totalPoints = req[r].readPoints + req[r].points]_vars

\* A claim has answered 200 and the store holds what it answered
C1_Witness ==
    \E r \in Reqs :
        /\ req[r].kind = "claim" /\ req[r].status = 200
        /\ Stored(users, req[r].userId) = req[r].user.totalPoints

\* C2: a POST /api/users with a non-empty name that no stored user has stores
\* a user with that name and totalPoints 0 and, unless a storage operation
\* rejects, answers 201 with that user; the user stays stored, and a GET
\* /api/users that resolves afterwards lists it.
Registered(r) ==
    /\ req[r].kind = "postUsers"
    /\ req[r].pc \in {"lb", "emit"} \/ req[r].status = 201

C2_RegistrationStoresUser ==
    [][/\ \A r \in Reqs :
            (req[r].pc = "idle" /\ req'[r].kind = "postUsers"
                /\ req'[r].name \notin {NoName, ""} \cup Names(users)
                /\ ~StorageRejected) =>
               /\ req'[r].pc = "lb"
               /\ Len(users') = Len(users) + 1
               /\ SubSeq(users', 1, Len(users)) = users
               /\ users'[Len(users')].name = req'[r].name
               /\ users'[Len(users')].totalPoints = 0
               /\ users'[Len(users')] = req'[r].user
       /\ \A r \in Reqs :
            (req[r].kind = "postUsers" /\ req[r].pc \in {"lb", "emit"}
                /\ req'[r].pc = "done") =>
               \/ Answers(r, 201) /\ req'[r].user = req[r].user
               \/ Answers(r, 500) /\ StorageRejected
       /\ \A r \in Reqs :
            Registered(r)' =>
               \E i \in DOMAIN users' :
                  /\ users'[i].name = req'[r].name
                  /\ users'[i]._id = req'[r].user._id
       /\ \A g \in Reqs :
            (req'[g].kind = "getUsers" /\ Answers(g, 200)) =>
               /\ req'[g].body = users
               /\ \A r \in Reqs :
                    Registered(r) =>
                       \E i \in DOMAIN req'[g].body :
                           req'[g].body[i].name = req[r].name]_vars

\* A registration has answered 201 and a later GET lists the new user, who has
\* no points
C2_Witness ==
    \E r, g \in Reqs :
        /\ req[r].kind = "postUsers" /\ req[r].status = 201
        /\ req[g].kind = "getUsers" /\ req[g].status = 200
        /\ \E i \in DOMAIN req[g].body :
              /\ req[g].body[i].name = req[r].name
              /\ req[g].body[i].totalPoints = 0

\* C3: a POST /api/users whose name a stored user has answers 409 (500 if the
\* storage operation rejects), adds no user, changes no user and emits
\* nothing; names stay unique; of two registrations of one name at most one
\* answers 201, and then the other, if it has answered without a storage
\* rejection, answered 409.
C3_DuplicateNameConflicts ==
    [][/\ \A r \in Reqs :
            (req[r].pc = "idle" /\ req'[r].kind = "postUsers"
                /\ req'[r].name \in Names(users)) =>
               /\ NothingWritten
               /\ Answers(r, 409) \/ (Answers(r, 500) /\ StorageRejected)
       /\ \A r \in Reqs :
            (req'[r].kind = "postUsers" /\ Answers(r, 409)) =>
               req'[r].name \in Names(users) /\ NothingWritten
       /\ \A i, j \in DOMAIN users' :
            users'[i].name = users'[j].name => i = j
       /\ \A r, q \in Reqs :
            (r # q /\ req'[r].kind = "postUsers" /\ req'[q].kind = "postUsers"
                /\ req'[r].name = req'[q].name /\ req'[r].status = 201) =>
               /\ req'[q].status \in {0, 409, 500}
               /\ (req'[q].status = 500) => failures' > 0]_vars

\* Two registrations of one name have answered 201 and 409 and one user has
\* the name
C3_Witness ==
    \E r, q \in Reqs :
        /\ req[r].kind = "postUsers" /\ req[r].status = 201
        /\ req[q].kind = "postUsers" /\ req[q].status = 409
        /\ req[r].name = req[q].name
        /\ Cardinality({i \in DOMAIN users : users[i].name = req[r].name}) = 1

\* C4: a POST /api/claim whose userId is well formed and belongs to no stored
\* user answers 404 (500 if the lookup rejects) and then no totalPoints
\* changes, no ClaimHistory entry is created and nothing is emitted.
C4_UnknownUserNotFound ==
    [][\A r \in Reqs :
        /\ (req[r].pc = "idle" /\ req'[r].kind = "claim" /\ req'[r].userId # 0
               /\ req'[r].userId \notin Ids(users)) =>
              /\ NothingWritten
              /\ Answers(r, 404) \/ (Answers(r, 500) /\ StorageRejected)
        /\ Answers(r, 404) =>
              /\ req'[r].kind = "claim"
              /\ req'[r].userId \notin Ids(users)
              /\ NothingWritten]_vars

\* A claim for an id that no user has has answered 404 while users are stored
C4_Witness ==
    \E r \in Reqs :
        /\ req[r].kind = "claim" /\ req[r].status = 404
        /\ req[r].userId \notin Ids(users) /\ users # << >>

\* C5: a POST /api/users without a name or with an empty name, and a POST
\* /api/claim without a userId, answer 400 in the step in which they arrive,
\* with no storage operation: the stored users and the claim history are
\* unchanged, nothing is emitted, no storage operation resolves or rejects.
C5_MissingFieldIsBadRequest ==
    [][\A r \in Reqs :
        /\ (req[r].pc = "idle" /\ req'[r].pc # "idle"
               /\ \/ req'[r].kind = "postUsers" /\ req'[r].name \in {NoName, ""}
                  \/ req'[r].kind = "claim" /\ req'[r].userId = 0) =>
              Answers(r, 400)
        /\ Answers(r, 400) =>
              /\ req[r].pc = "idle"
              /\ NothingWritten
              /\ UNCHANGED <<failures, mongo, seedPc, sock>>]_vars

\* Both kinds of 400 have been answered before the store was even connected
C5_Witness ==
    /\ mongo = "connecting"
    /\ \E r, q \in Reqs :
          /\ req[r].kind = "postUsers" /\ req[r].status = 400
          /\ req[q].kind = "claim" /\ req[q].status = 400

\* board lists exactly the users of us, ordered by totalPoints descending,
\* with ranks 1..N, N the number of users of us
IsRanked(board) ==
    /\ \A i \in DOMAIN board : board[i].rank = i
    /\ \A i \in DOMAIN board :
          i < Len(board) => board[i].totalPoints >= board[i + 1].totalPoints

IsLeaderboardOf(board, us) ==
    /\ IsRanked(board)
    /\ Len(board) = Len(us)
    /\ \A i \in DOMAIN us : \E j \in DOMAIN board :
          /\ board[j]._id = us[i]._id
          /\ board[j].name = us[i].name
          /\ board[j].totalPoints = us[i].totalPoints

Last(q) == q[Len(q)]
ReceivedOne(s) ==
    /\ Len(inbox'[s]) = Len(inbox[s]) + 1
    /\ SubSeq(inbox'[s], 1, Len(inbox[s])) = inbox[s]
Succeeds(r) ==
    req[r].pc = "emit" /\ req'[r].pc = "done" /\ req'[r].status \in {200, 201}

\* C6 as stated: after a POST that answers 201 or 200, every client connected
\* at the emit has been sent a leaderboardUpdate ordered by totalPoints
\* descending with ranks 1..N, N the number of stored users.
C6_AsStated ==
    [][\A r \in Reqs : Succeeds(r) =>
          \A s \in Sockets : sock[s].connected =>
             /\ ReceivedOne(s)
             /\ Last(inbox'[s]).event = "leaderboardUpdate"
             /\ IsRanked(Last(inbox'[s]).data)
             /\ Len(Last(inbox'[s]).data) = Len(users')]_vars

\* C6 amended: the leaderboard the handler reads lists exactly the users stored
\* at that read, by totalPoints descending, with ranks 1..N in order, N the
\* number of users stored at the read; when the POST answers 201 or 200 every
\* client connected at the emit has been sent that leaderboard in one
\* leaderboardUpdate and no other client has been sent anything.
C6_BroadcastOfReadLeaderboard ==
    [][\A r \in Reqs :
        /\ (req[r].pc = "lb" /\ req'[r].pc = "emit") =>
              IsLeaderboardOf(req'[r].board, users)
        /\ (req[r].pc = "emit" /\ req'[r].pc # "emit") =>
              /\ Succeeds(r)
              /\ req'[r].status = IF req[r].kind = "claim" THEN 200 ELSE 201
              /\ IsRanked(req[r].board)
              /\ \A s \in Sockets :
                    IF sock[s].connected
                    THEN /\ ReceivedOne(s)
                         /\ Last(inbox'[s]).event = "leaderboardUpdate"
                         /\ Last(inbox'[s]).data = req[r].board
                    ELSE inbox'[s] = inbox[s]]_vars

\* A connected client has been sent the leaderboard of a claim: the user with
\* the points ranks first, ahead of a user stored before it
C6_Witness ==
    \E s \in Sockets : \E k \in DOMAIN inbox[s] :
        /\ sock[s].connected
        /\ inbox[s][k].via = "io"
        /\ Len(inbox[s][k].data) >= 2
        /\ inbox[s][k].data[1]._id = 2
        /\ inbox[s][k].data[1].totalPoints > inbox[s][k].data[2].totalPoints
        /\ \E r \in Reqs : req[r].kind = "claim" /\ req[r].status = 200

FromConnection(s) == {k \in DOMAIN inbox[s] : inbox[s][k].via = "socket"}

ExactlySeeds(us) ==
    /\ Len(us) = Len(initialUsers)
    /\ \A i \in DOMAIN us :
          us[i].name = initialUsers[i] /\ us[i].totalPoints = 0

\* C8 as stated: when seedDatabase has counted no user, the users stored once
\* its insert has resolved are exactly the 10 seed users, each with
\* totalPoints 0, also when requests are served between count and insert.
C8_AsStated ==
    [][(seedPc = "insert" /\ seedPc' = "done" /\ ~StorageRejected) =>
          ExactlySeeds(users')]_vars

\* C8 amended: when its count finds no user, seedDatabase inserts the seed
\* users in order, each with totalPoints 0, after the users stored meanwhile,
\* up to the first seed name that is taken: exactly the 10 seed users if no
\* user was stored between count and insert.  When its count finds a user, or
\* the process starts against a non-empty collection, seedDatabase inserts
\* nothing and changes no user.
Seeded == Len(users') - Len(users)

C8_SeedsOnlyWhenCountIsZero ==
    [][/\ (seedPc = "count" /\ seedPc' = "insert") => users = << >>
       /\ (seedPc = "count" /\ seedPc' = "done") =>
             /\ users' = users
             /\ users # << >> \/ StorageRejected
       /\ (seedPc = "insert" /\ seedPc' = "done" /\ ~StorageRejected) =>
             /\ Seeded \in 0..Len(initialUsers)
             /\ SubSeq(users', 1, Len(users)) = users
             /\ \A j \in 1..Seeded :
                   /\ users'[Len(users) + j].name = initialUsers[j]
                   /\ users'[Len(users) + j].totalPoints = 0
             /\ \/ Seeded = Len(initialUsers)
                \/ initialUsers[Seeded + 1] \in Names(users)
             /\ users = << >> => ExactlySeeds(users')
       /\ startUsers # << >> =>
             /\ seedPc' # "insert"
             /\ seedPc' # seedPc => users' = users]_vars

\* Started against an empty collection, seeding has finished and the 10 seed
\* users are stored
C8_Witness == startUsers = << >> /\ seedPc = "done" /\ ExactlySeeds(users)

RECURSIVE SumClaimed(_, _)
SumClaimed(h, id) ==
    IF h = << >> THEN 0
    ELSE (IF Head(h).userId = id THEN Head(h).pointsClaimed ELSE 0)
            + SumClaimed(Tail(h), id)

\* C1 as stated is violated also by runs in which no update is lost: checked
\* at the completion of a claim that finds every award in the stored total
C1_AsStatedNoLostUpdate ==
    [][\A r \in Reqs :
        (req[r].kind = "claim" /\ Answers(r, 200)
            /\ Stored(users', req[r].userId) = SumClaimed(history', req[r].userId)) =>
           Stored(users', req[r].userId) = req[r].readPoints + req'[r].points]_vars

\* C9 as stated, for runs in which no storage operation rejects: whenever no
\* claim handler is between its user update and its history insert, each
\* user's totalPoints is the sum of pointsClaimed over its history entries.
C9_AsStated ==
    (failures = 0 /\ \A r \in Reqs : req[r].pc # "hist") =>
        \A i \in DOMAIN users :
            users[i].totalPoints = SumClaimed(history, users[i]._id)

\* C10 as stated: no step lowers a stored user's totalPoints or removes a
\* user.
C10_AsStated ==
    [][\A i \in DOMAIN users :
          /\ i \in DOMAIN users'
          /\ users'[i]._id = users[i]._id
          /\ users'[i].totalPoints >= users[i].totalPoints]_vars

\* C11 as stated: a registration or claim whose persistence writes have all
\* succeeded answers 201 or 200, whether or not the recomputation or the push
\* of the leaderboard succeeds.
C11_AsStated ==
    [][\A r \in Reqs :
        (req[r].pc \in {"lb", "emit"} /\ req'[r].pc = "done") =>
            req'[r].status = IF req[r].kind = "claim" THEN 200 ELSE 201]_vars

\* C12: a claim's save stores the total its own findById read plus its own
\* award and touches no other user, whatever has been written to that user
\* since the read; so the awards written in between are not in the result.
C12_SaveWritesOwnReadPlusAward ==
    [][\A r \in Reqs :
        (req[r].pc = "save" /\ req'[r].pc = "hist") =>
            /\ Stored(users', req[r].userId) = req[r].readPoints + req[r].points
            /\ \A i \in DOMAIN users :
                  users[i]._id # req[r].userId => users'[i] = users[i]
            /\ Stored(users, req[r].userId) > req[r].readPoints =>
                  Stored(users', req[r].userId)
                      < Stored(users, req[r].userId) + req[r].points]_vars

\* Two claims for one user have both answered 200 and the stored total is
\* less than the initial total plus the two awards: an update is lost
C12_Witness ==
    \E r, q \in Reqs :
        /\ r # q
        /\ req[r].kind = "claim" /\ req[r].status = 200
        /\ req[q].kind = "claim" /\ req[q].status = 200
        /\ req[r].userId = req[q].userId
        /\ req[r].userId \in Ids(startUsers)
        /\ Stored(users, req[r].userId)
              < Stored(startUsers, req[r].userId) + req[r].points + req[q].points

\* C13: when a claim's history insert rejects after its user update, the
\* handler answers 500 in that step, which changes no user (the award stays
\* in the stored total: no rollback), creates no ClaimHistory entry and emits
\* nothing; a handler leaves its history insert without an entry only so.
C13_HistoryFailureKeepsPoints ==
    [][\A r \in Reqs :
        (req[r].pc = "hist" /\ req'[r].pc # "hist" /\ history' = history) =>
            /\ Answers(r, 500)
            /\ req'[r].sent = 1
            /\ StorageRejected
            /\ UNCHANGED <<users, writes, inbox>>
            /\ (\A q \in Reqs \ {r} : req[q].pc = "idle") =>
                  /\ Stored(users', req[r].userId)
                        = req[r].readPoints + req[r].points
                  /\ SumClaimed(history', req[r].userId) = 0]_vars

\* A single claim has answered 500 with the award in the stored total, no
\* history entry, and nothing sent to the connected client
C13_Witness ==
    \E r \in Reqs : \E s \in Sockets :
        /\ req[r].kind = "claim" /\ req[r].status = 500
        /\ Stored(users, req[r].userId) > Stored(startUsers, req[r].userId)
        /\ history = << >>
        /\ sock[s].connected /\ sock[s].pc = "lb" /\ inbox[s] = << >>

\* C14: within one claim the steps occur in the written order: the history
\* entry is inserted only by a handler whose user update has completed, in a
\* later step than that update; the leaderboard is read for the broadcast only
\* by a handler whose history insert has completed; and the 200 is sent only
\* in the step that emits the leaderboard read, to every connected client.
C14_WrittenOrder ==
    [][\A r \in Reqs : req'[r].kind = "claim" =>
        /\ (req[r].pc # "save" /\ req'[r].pc = "save") =>
              /\ req[r].pc = "idle"
              /\ UNCHANGED <<users, history, inbox>>
        /\ (req[r].pc # "hist" /\ req'[r].pc = "hist") =>
              /\ req[r].pc = "save"
              /\ users' = SaveUser(users, req[r].user)
              /\ UNCHANGED <<history, inbox>>
        /\ (req[r].pc # "lb" /\ req'[r].pc = "lb") =>
              /\ req[r].pc = "hist"
              /\ history' = Append(history,
                                   HistoryRecord(req[r].user, req[r].points))
              /\ UNCHANGED <<users, inbox>>
        /\ (req[r].pc # "emit" /\ req'[r].pc = "emit") =>
              /\ req[r].pc = "lb"
              /\ UNCHANGED <<users, history, inbox>>
        /\ Answers(r, 200) =>
              /\ req[r].pc = "emit"
              /\ inbox' = IoEmit(req[r].board, req[r].ver)
              /\ UNCHANGED <<users, history>>]_vars

\* A claim has answered 200: its award is stored, its history entry exists
\* and a connected client has been sent its leaderboardUpdate
C14_Witness ==
    \E r \in Reqs : \E s \in Sockets :
        /\ req[r].kind = "claim" /\ req[r].status = 200 /\ req[r].points > 1
        /\ Stored(users, req[r].userId) = req[r].points
        /\ history = <<HistoryRecord(req[r].user, req[r].points)>>
        /\ sock[s].connected
        /\ inbox[s] # << >>
        /\ Last(inbox[s]).via = "io"
        /\ \E k \in DOMAIN Last(inbox[s]).data :
              /\ Last(inbox[s]).data[k]._id = req[r].userId
              /\ Last(inbox[s]).data[k].totalPoints = req[r].points

\* C15 as stated: the number of ClaimHistory entries always equals the number
\* of claim requests answered 200, counting a request past its history insert
\* whose response is about to be sent, and every entry carries the userId and
\* the award of such a request.
C15_AsStated ==
    LET Successful == {r \in Reqs : /\ req[r].kind = "claim"
                                    /\ \/ req[r].status = 200
                                       \/ req[r].pc \in {"lb", "emit"}} IN
    /\ Len(history) = Cardinality(Successful)
    /\ \A k \in DOMAIN history : \E r \in Successful :
          history[k] = HistoryRecord(req[r].user, req[r].points)

\* C16: a step of the realtime connection handling (a connection, the
\* snapshot read and emit of its handler, a disconnection) changes no stored
\* user, no claim-history entry and no request; the only message it sends is
\* the one snapshot of a connection handler, to its own still-connected
\* client and to no other; a disconnection sends nothing.
C16_ConnectionsOnlyTouchClientSet ==
    [][sock' # sock =>
        /\ UNCHANGED <<users, history, writes, req>>
        /\ \A t \in Sockets :
              /\ inbox'[t] # inbox[t] =>
                    /\ sock[t].pc = "emit" /\ sock'[t].pc = "done"
                    /\ sock[t].connected
                    /\ ReceivedOne(t)
                    /\ Last(inbox'[t]) = SocketEmitted(sock[t].board, sock[t].ver)
              /\ (sock[t].pc = "none" /\ sock'[t].pc # "none") =>
                    sock'[t].connected /\ inbox' = inbox
              /\ (sock[t].connected /\ ~sock'[t].connected) =>
                    inbox' = inbox]_vars

\* The second client has been sent its snapshot while the first client,
\* connected before it and still connected, has been sent nothing; then the
\* second client has disconnected
C16_Witness ==
    /\ sock[1].connected /\ inbox[1] = << >>
    /\ sock[2].pc = "done" /\ ~sock[2].connected
    /\ Len(inbox[2]) = 1 /\ inbox[2][1].via = "socket"
    /\ inbox[2][1].data # << >>

\* C17: every handler invocation eventually sends exactly one response: a
\* request that has been received is eventually answered, whichever of its
\* storage operations and leaderboard recomputation resolve or reject; a
\* request has sent a response exactly when its handler has finished, never
\* more than one, and nothing is sent for it afterwards.
C17_ExactlyOneResponse ==
    /\ [](\A r \in Reqs :
            /\ req[r].sent \in {0, 1}
            /\ req[r].sent = 1 <=> req[r].pc = "done"
            /\ req[r].pc = "done" => req[r].status \in {200, 201, 400, 404, 409, 500})
    /\ [][\A r \in Reqs : req[r].pc = "done" => req'[r] = req[r]]_vars
    /\ \A r \in Reqs :
          (req[r].pc # "idle") ~> (req[r].pc = "done" /\ req[r].sent = 1)

\* A claim whose writes all succeeded and whose leaderboard recomputation
\* rejected has sent its one response, while another request has sent its one
\* response on the success path
C17_Witness ==
    \E r, q \in Reqs :
        /\ req[r].kind = "claim" /\ req[r].status = 500 /\ req[r].sent = 1
        /\ \E k \in DOMAIN history : history[k].userId = req[r].userId
        /\ mongo = "connected"
        /\ req[q].status \in {200, 201} /\ req[q].sent = 1

\* The stored states are numbered by the writes applied to the users so far
Versions(s) == {inbox[s][k].ver : k \in DOMAIN inbox[s]}

\* C18 as stated: no client is sent a leaderboard read from an earlier stored
\* state after one read from a later stored state.
C18_AsStated ==
    \A s \in Sockets : \A i, j \in DOMAIN inbox[s] :
        i < j => inbox[s][i].ver <= inbox[s][j].ver

\* C18 amended: a sender reads the leaderboard and emits it in two steps, and
\* another sender's emit may fall between them, so a client can be sent an
\* older leaderboard after a newer one. What holds is: the stored state never
\* goes back; every read, of a POST handler or of a connection handler, takes
\* the leaderboard of the state stored at that read, which is at least as late
\* as every message sent to any client before the read; and every emit sends
\* the leaderboard its sender read. So a message is older than one a client
\* was sent before it only if it was read before that one was emitted.
C18_ReadNeverOlderThanSent ==
    [][/\ writes' >= writes
       /\ \A r \in Reqs :
             /\ (req[r].pc = "lb" /\ req'[r].pc = "emit") =>
                   /\ req'[r].ver = writes
                   /\ IsLeaderboardOf(req'[r].board, users)
                   /\ \A s \in Sockets : \A v \in Versions(s) : v <= req'[r].ver
             /\ (req[r].pc = "emit" /\ req'[r].pc # "emit") =>
                   \A s \in Sockets : sock[s].connected =>
                       /\ ReceivedOne(s)
                       /\ Last(inbox'[s]).ver = req[r].ver
                       /\ Last(inbox'[s]).data = req[r].board
       /\ \A s \in Sockets :
             /\ (sock[s].pc = "lb" /\ sock'[s].pc = "emit") =>
                   /\ sock'[s].ver = writes
                   /\ IsLeaderboardOf(sock'[s].board, users)
                   /\ \A t \in Sockets : \A v \in Versions(t) : v <= sock'[s].ver
             /\ (sock[s].pc = "emit" /\ sock'[s].pc # "emit" /\ sock[s].connected) =>
                   /\ ReceivedOne(s)
                   /\ Last(inbox'[s]).ver = sock[s].ver
                   /\ Last(inbox'[s]).data = sock[s].board]_vars

\* A client has been sent the snapshot its connection handler read before a
\* write, after the broadcast of the leaderboard read after that write
C18_Witness ==
    \E s \in Sockets :
        /\ Len(inbox[s]) = 2
        /\ inbox[s][1].via = "io" /\ inbox[s][2].via = "socket"
        /\ inbox[s][2].ver < inbox[s][1].ver
        /\ inbox[s][2].data # inbox[s][1].data

====
